---- MODULE Spec2Model ----
(***************************************************************************)
(* Model of the host/device memory manager `mm` (src/unnamed/part_000).    *)
(*                                                                         *)
(* Addresses.  A pointer is a pair <<seg, off>> standing for the byte      *)
(* address seg * 2^51 + off: 2^51 bytes is what `+ xs_shift` adds to a     *)
(* size_t pointer (2^48 elements of 8 bytes).  Offsets stay far below 2^51 *)
(* so the pair arithmetic below is exact.  NULL is <<0, 0>>.               *)
(***************************************************************************)
EXTENDS Integers, Sequences, FiniteSets, TLC

\* ------------------------------------------------------------------ bounds
MaxOff == 2         \* caller addresses have byte offsets 1..MaxOff
MaxRecs == 2        \* the registry holds at most MaxRecs entries
MaxAllocs == 2      \* at most MaxAllocs device allocations are made
MaxInits == 2       \* a time integrator is initialized at most MaxInits times

\* --------------------------------------------------------------- constants
SizeOfSizeT == 8    \* sizeof(size_t): the stride of the (size_t*) casts
NumSegs == 8192     \* 2^64 / 2^51: segment arithmetic wraps like size_t
DevSeg == 4096      \* segment the device allocator hands its addresses from

NULL == <<0, 0>>

VARIABLES
  mng,          \* mm_t: host address (key) -> mm2dev_t
  xs_shifted,   \* static bool xs_shifted, set by Setup from getenv("XS")
  mfem_debug,   \* build configuration: MFEM_ASSERT is compiled in
  nvcc,         \* build configuration: config::nvcc()
  allocs,       \* number of device allocations made so far (okMemAlloc)
  fatal,        \* the process was aborted (trap, failed assertion, mfem_error)
  last,         \* the last call: operation, arguments, returned value
  calls,        \* the backend calls issued by the last call, in order
  bufs,         \* contents of a host buffer and of its device mirror, and
                \* the asynchronous copies still in flight on the stream
  ode           \* a SUNDIALS time-integrator adapter (linalg/sundials.cpp)

vars == <<mng, xs_shifted, mfem_debug, nvcc, allocs, fatal, last, calls,
          bufs, ode>>

\* ------------------------------------------------------- pointer arithmetic
\* static size_t xs_shift: 0, or 1ull << 48 counted here in segments
xs_shift == IF xs_shifted THEN 1 ELSE 0

\* ((size_t*) adrs) + k * 2^48
SegPlus(adrs, k) == <<(adrs[1] + k) % NumSegs, adrs[2]>>

\* ((size_t*) adrs) - k * 2^48
SegMinus(adrs, k) == <<(adrs[1] + NumSegs - k) % NumSegs, adrs[2]>>

\* (size_t*) adrs + n
SizeTPlus(adrs, n) == <<adrs[1], adrs[2] + SizeOfSizeT * n>>

\* (size_t*) a - (size_t*) b, for a and b in the same segment with b <= a
SizeTDiff(a, b) == (a[2] - b[2]) \div SizeOfSizeT

\* pointer comparisons a < b, a <= b
AdrsLT(a, b) == a[1] < b[1] \/ (a[1] = b[1] /\ a[2] < b[2])
AdrsLE(a, b) == a = b \/ AdrsLT(a, b)

\* a slip that hands the shifted address back
xsShiftIdentity(adrs) == adrs

\* xsShift(adrs)
xsShift(adrs) == IF ~xs_shifted THEN adrs ELSE SegMinus(adrs, xs_shift)

\* the i-th address handed out by okMemAlloc
DevAdrs(i) == <<DevSeg, i>>

\* ------------------------------------------------------------ the registry
\* a value-initialised mm2dev_t, as operator[] creates for a missing key;
\* the struct is declared outside the sources at hand, so its `host`
\* member may start either way
DefaultRecords ==
  { [host |-> h, bytes |-> 0, h_adrs |-> NULL, d_adrs |-> NULL,
     ranged |-> FALSE] : h \in BOOLEAN }

\* mng->operator[](k): the maps that may result (k is added when missing)
Subscript(m, k) ==
  IF k \in DOMAIN m THEN {m}
  ELSE { [x \in DOMAIN m \cup {k} |-> IF x = k THEN d ELSE m[x]] :
           d \in DefaultRecords }

\* default of Insert's `ranged` parameter, used by the call in Known
RangedDefault == TRUE

\* mm::Known(adrs) with `insert_if_in_range` left to its default: the exact
\* lookup of lines 63-66, which changes nothing
KnownExact(m, adrs) == adrs \in DOMAIN m

\* a slip that drops the element size
InsertBytesNoElementSize(size, size_of_T) == size

\* size*size_of_T
InsertBytes(size, size_of_T) == size * size_of_T

\* the end of a block in Range: (size_t*)h_adrs + bytes
RangeEnd(h_adrs, bytes) == SizeTPlus(h_adrs, bytes)

\* a slip that forgets `if (h_adrs > adrs) continue;`
RangeHitNoLowerBound(h_adrs, bytes, adrs) ==
  AdrsLE(adrs, RangeEnd(h_adrs, bytes))

\* the loop body of Range: does the entry with (h_adrs, bytes) match adrs?
RangeHit(h_adrs, bytes, adrs) ==
  /\ ~AdrsLT(adrs, h_adrs)
  /\ AdrsLE(adrs, RangeEnd(h_adrs, bytes))

\* a slip that gives up when more than one entry matches
RangeGivesUp(m, adrs) ==
  LET hits == { k \in DOMAIN m : RangeHit(m[k].h_adrs, m[k].bytes, adrs) }
  IN  IF Cardinality(hits) # 1 THEN {NULL} ELSE { m[k].h_adrs : k \in hits }

\* mm::Range over the map m: the iteration order of the map is unspecified,
\* so any matching entry may be the first one met; NULL when none matches.
\* The entry assertion `assert(not known)` is AssertRange below.
Range(m, adrs) ==
  LET hits == { k \in DOMAIN m : RangeHit(m[k].h_adrs, m[k].bytes, adrs) }
  IN  IF hits = {} THEN {NULL} ELSE { m[k].h_adrs : k \in hits }

AssertRange(m, adrs) == adrs \notin DOMAIN m

\* the size Known passes to Insert: bytes-offset
KnownSize(bytes, adrs, base) == bytes - SizeTDiff(adrs, base)

\* a slip that leaves the duplicate check to the assertions alone
InsertNeverTraps(m, h_adrs) == FALSE

\* `if (known)` and `if (not mm2dev.ranged)`: MFEM_SIGSEGV_FOR_STACK
InsertTraps(m, h_adrs) == KnownExact(m, h_adrs) /\ ~m[h_adrs].ranged

\* mm::Insert on the map m (mm::Known(h_adrs) is the exact lookup):
\* the result is [ret, mng, fatal]
Insert(m, adrs, size, size_of_T, ranged) ==
  LET h_adrs == SegPlus(adrs, xs_shift)
      known  == KnownExact(m, h_adrs)
      stored == [host |-> TRUE, bytes |-> InsertBytes(size, size_of_T),
                 h_adrs |-> h_adrs, d_adrs |-> NULL, ranged |-> ranged]
  IN  IF InsertTraps(m, h_adrs)
        THEN [ret |-> NULL, mng |-> m, fatal |-> TRUE]
      ELSE IF known /\ mfem_debug
        THEN [ret |-> NULL, mng |-> m, fatal |-> TRUE]
      ELSE [ret |-> h_adrs,
            mng |-> [x \in DOMAIN m \cup {h_adrs} |->
                       IF x = h_adrs THEN stored ELSE m[x]],
            fatal |-> FALSE]

\* a slip that lets the sub-range record share the mirror of its block
KnownSharesMirror(m, adrs, insert_if_in_range) ==
  IF adrs \in DOMAIN m
    THEN {[known |-> TRUE, mng |-> m, fatal |-> FALSE]}
  ELSE IF ~insert_if_in_range
    THEN {[known |-> FALSE, mng |-> m, fatal |-> FALSE]}
  ELSE IF ~AssertRange(m, adrs)
    THEN {[known |-> FALSE, mng |-> m, fatal |-> TRUE]}
  ELSE UNION {
    IF base = NULL
      THEN {[known |-> FALSE, mng |-> m, fatal |-> FALSE]}
    ELSE {
      LET bytes == m2[base].bytes
      IN  IF ~(0 < bytes) \/ ~AdrsLT(base, adrs)
            THEN [known |-> FALSE, mng |-> m2, fatal |-> TRUE]
          ELSE LET ins == Insert(m2, adrs, KnownSize(bytes, adrs, base), 1,
                                 RangedDefault)
               IN  [known |-> ~ins.fatal,
                    mng |-> IF ins.fatal THEN ins.mng
                            ELSE [ins.mng EXCEPT
                                    ![ins.ret].d_adrs = m2[base].d_adrs,
                                    ![ins.ret].host = m2[base].host],
                    fatal |-> ins.fatal]
      : m2 \in Subscript(m, base) }
    : base \in Range(m, adrs) }

\* mm::Known on the map m: the set of possible results [known, mng, fatal]
Known(m, adrs, insert_if_in_range) ==
  IF adrs \in DOMAIN m
    THEN {[known |-> TRUE, mng |-> m, fatal |-> FALSE]}
  ELSE IF ~insert_if_in_range
    THEN {[known |-> FALSE, mng |-> m, fatal |-> FALSE]}
  ELSE IF ~AssertRange(m, adrs)
    THEN {[known |-> FALSE, mng |-> m, fatal |-> TRUE]}
  ELSE UNION {
    IF base = NULL
      THEN {[known |-> FALSE, mng |-> m, fatal |-> FALSE]}
    ELSE {
      LET bytes == m2[base].bytes
      IN  IF ~(0 < bytes) \/ ~AdrsLT(base, adrs)
            THEN [known |-> FALSE, mng |-> m2, fatal |-> TRUE]
          ELSE LET ins == Insert(m2, adrs, KnownSize(bytes, adrs, base), 1,
                                 RangedDefault)
               IN  [known |-> ~ins.fatal, mng |-> ins.mng,
                    fatal |-> ins.fatal]
      : m2 \in Subscript(m, base) }
    : base \in Range(m, adrs) }

\* a slip that takes the sub-range records of the block away with it
EraseWithSubRanges(m, adrs) ==
  IF ~KnownExact(m, adrs)
    THEN [ret |-> NULL, mng |-> m, fatal |-> TRUE]
    ELSE [ret |-> xsShift(adrs),
          mng |-> [x \in { k \in DOMAIN m \ {adrs} :
                           ~(m[k].ranged /\ AdrsLT(adrs, k)) } |-> m[x]],
          fatal |-> FALSE]

\* a slip that forgets mng->erase(adrs)
EraseKeepsEntry(m, adrs) ==
  IF adrs \notin DOMAIN m
    THEN [ret |-> NULL, mng |-> m, fatal |-> TRUE]
    ELSE [ret |-> xsShift(adrs), mng |-> m, fatal |-> FALSE]

\* a slip that leaves the unknown address to MFEM_ASSERT alone
EraseAssertOnly(m, adrs) ==
  [ret |-> IF adrs \in DOMAIN m \/ ~mfem_debug THEN xsShift(adrs) ELSE NULL,
   mng |-> [x \in DOMAIN m \ {adrs} |-> m[x]],
   fatal |-> adrs \notin DOMAIN m /\ mfem_debug]

\* mm::Erase on the map m: [ret, mng, fatal]
Erase(m, adrs) ==
  IF ~KnownExact(m, adrs)
    THEN [ret |-> NULL, mng |-> m, fatal |-> TRUE]
    ELSE [ret |-> xsShift(adrs),
          mng |-> [x \in DOMAIN m \ {adrs} |-> m[x]],
          fatal |-> FALSE]

\* the backend calls
MemAlloc(d, bytes) ==
  [fn |-> "okMemAlloc", dst |-> d, src |-> NULL, bytes |-> bytes]
MemcpyHtoDAsync(d, h, bytes) ==
  [fn |-> "okMemcpyHtoDAsync", dst |-> d, src |-> h, bytes |-> bytes]
MemcpyHtoD(d, h, bytes) ==
  [fn |-> "okMemcpyHtoD", dst |-> d, src |-> h, bytes |-> bytes]
MemcpyDtoH(h, d, bytes) ==
  [fn |-> "okMemcpyDtoH", dst |-> h, src |-> d, bytes |-> bytes]

\* the early return of Adrs: `mm2dev.host and not cuda`
AdrsHostReturn(host, cuda) == host /\ ~cuda

\* a slip that takes every record for a new one
AdrsAlwaysNotSeen(rec) == TRUE

\* `if (not mm2dev.d_adrs)`: the record has to be allocated on the device
AdrsNotSeen(rec) == rec.d_adrs = NULL

\* a slip that goes on to the device without testing for device support
AdrsSupportAssumed == FALSE

\* `if (not nvcc)`: mfem_error("Trying to run without CUDA support!")
AdrsNoSupport == ~nvcc

\* a slip that allocates for empty records too
AdrsAlwaysAllocates(bytes) == TRUE

\* `if (bytes>0) { okMemAlloc(&mm2dev.d_adrs, bytes); }`
AdrsAllocates(bytes) == bytes > 0

\* a slip that materializes without the host-to-device copy
AdrsBodyNoCopy(m2, al, adrs, cuda) ==
  LET rec == m2[adrs]
      d   == IF AdrsAllocates(rec.bytes) THEN DevAdrs(al + 1) ELSE NULL
      new == [rec EXCEPT !.d_adrs = d, !.host = FALSE]
  IN  IF AdrsHostReturn(rec.host, cuda)
        THEN [ret |-> xsShift(rec.h_adrs), mng |-> m2, fatal |-> FALSE,
              calls |-> <<>>, allocs |-> al]
      ELSE IF ~AdrsNotSeen(rec)
        THEN [ret |-> rec.d_adrs, mng |-> m2, fatal |-> FALSE,
              calls |-> <<>>, allocs |-> al]
      ELSE IF AdrsNoSupport
        THEN [ret |-> NULL, mng |-> m2, fatal |-> TRUE,
              calls |-> <<>>, allocs |-> al]
      ELSE [ret |-> d,
            mng |-> [m2 EXCEPT ![adrs] = new],
            fatal |-> FALSE,
            calls |-> IF AdrsAllocates(rec.bytes)
                        THEN <<MemAlloc(d, rec.bytes)>> ELSE <<>>,
            allocs |-> IF AdrsAllocates(rec.bytes)
                         THEN al + 1 ELSE al]

\* lines 140-157 of mm::Adrs, on the map m2 that holds the entry of adrs,
\* with `al` the allocations made so far: [ret, mng, fatal, calls, allocs]
AdrsBody(m2, al, adrs, cuda) ==
  LET rec == m2[adrs]
      d   == IF AdrsAllocates(rec.bytes) THEN DevAdrs(al + 1) ELSE NULL
      new == [rec EXCEPT !.d_adrs = d, !.host = FALSE]
  IN  IF AdrsHostReturn(rec.host, cuda)
        THEN [ret |-> xsShift(rec.h_adrs), mng |-> m2, fatal |-> FALSE,
              calls |-> <<>>, allocs |-> al]
      ELSE IF ~AdrsNotSeen(rec)
        THEN [ret |-> rec.d_adrs, mng |-> m2, fatal |-> FALSE,
              calls |-> <<>>, allocs |-> al]
      ELSE IF AdrsNoSupport
        THEN [ret |-> NULL, mng |-> m2, fatal |-> TRUE,
              calls |-> <<>>, allocs |-> al]
      ELSE [ret |-> d,
            mng |-> [m2 EXCEPT ![adrs] = new],
            fatal |-> FALSE,
            calls |-> (IF AdrsAllocates(rec.bytes)
                         THEN <<MemAlloc(d, rec.bytes)>> ELSE <<>>)
                      \o <<MemcpyHtoDAsync(d, rec.h_adrs, rec.bytes)>>,
            allocs |-> IF AdrsAllocates(rec.bytes)
                         THEN al + 1 ELSE al]

\* mm::Adrs: the set of possible results
Adrs(m, al, adrs, cuda) ==
  UNION {
    IF k.fatal \/ ~k.known
      THEN {[ret |-> NULL, mng |-> k.mng, fatal |-> TRUE,
             calls |-> <<>>, allocs |-> al]}
      ELSE { AdrsBody(m2, al, adrs, cuda) : m2 \in Subscript(k.mng, adrs) }
    : k \in Known(m, adrs, TRUE) }

\* a slip that copies in the direction of Push
PullCopyWrongWay(rec) == MemcpyHtoD(rec.d_adrs, rec.h_adrs, rec.bytes)

\* the copy of mm::Push and of mm::Pull
PushCopy(rec) == MemcpyHtoD(rec.d_adrs, rec.h_adrs, rec.bytes)
PullCopy(rec) == MemcpyDtoH(rec.h_adrs, rec.d_adrs, rec.bytes)

\* `if (mm2dev.host) { return; }`
SyncSkips(rec) == rec.host

\* a slip that lets Push and Pull mark the side they copied to as resident
SyncMarksSide(m, adrs, push) ==
  IF mfem_debug /\ ~KnownExact(m, adrs)
    THEN {[mng |-> m, fatal |-> TRUE, calls |-> <<>>]}
    ELSE { [mng |-> [m2 EXCEPT ![adrs].host = ~push], fatal |-> FALSE,
            calls |-> IF SyncSkips(m2[adrs]) THEN <<>>
                      ELSE IF push THEN <<PushCopy(m2[adrs])>>
                      ELSE <<PullCopy(m2[adrs])>>]
           : m2 \in Subscript(m, adrs) }

\* a slip that lets Pull give the device address up once the bytes are back
SyncForgetsDevice(m, adrs, push) ==
  IF mfem_debug /\ ~KnownExact(m, adrs)
    THEN {[mng |-> m, fatal |-> TRUE, calls |-> <<>>]}
    ELSE { [mng |-> IF push \/ SyncSkips(m2[adrs]) THEN m2
                    ELSE [m2 EXCEPT ![adrs].d_adrs = NULL],
            fatal |-> FALSE,
            calls |-> IF SyncSkips(m2[adrs]) THEN <<>>
                      ELSE IF push THEN <<PushCopy(m2[adrs])>>
                      ELSE <<PullCopy(m2[adrs])>>]
           : m2 \in Subscript(m, adrs) }

\* mm::Push (push = TRUE) and mm::Pull (push = FALSE): the possible results
\* [mng, fatal, calls]; MFEM_ASSERT(Known(adrs)) exists in debug builds only
Sync(m, adrs, push) ==
  IF mfem_debug /\ ~KnownExact(m, adrs)
    THEN {[mng |-> m, fatal |-> TRUE, calls |-> <<>>]}
    ELSE { [mng |-> m2, fatal |-> FALSE,
            calls |-> IF SyncSkips(m2[adrs]) THEN <<>>
                      ELSE IF push THEN <<PushCopy(m2[adrs])>>
                      ELSE <<PullCopy(m2[adrs])>>]
           : m2 \in Subscript(m, adrs) }

\* ------------------------------------------------------------------ calls
\* the addresses callers hold: their buffers and, with XS set, the shifted
\* addresses Insert returned for them
CallerAdrs == (0..xs_shift) \X (1..MaxOff)

\* the element counts and element sizes callers pass to Insert
Counts == {0, 1, 2}
SizesOfT == {0, 1}

\* callers register original blocks: they leave `ranged` to Known
CallerRanged == {FALSE}

\* `step` is the position in the end-to-end scenario (0: not running)
NoCall == [op |-> "Setup", adrs |-> NULL, flag |-> FALSE, ret |-> NULL,
           known |-> FALSE, step |-> 0]

\* no buffer contents are followed, no adapter is constructed
NoBufs == [host |-> "none", dev |-> <<>>, saved |-> "none",
           inflight |-> <<>>]
NoOde == [kind |-> "none"]

Fits(m, al) == Cardinality(DOMAIN m) <= MaxRecs /\ al <= MaxAllocs

\* mm::Setup: the empty map; XS and the build configuration are fixed
Init ==
  /\ mng = [x \in {} |-> NULL]
  /\ xs_shifted = FALSE
  /\ mfem_debug \in BOOLEAN
  /\ nvcc \in BOOLEAN
  /\ allocs = 0
  /\ fatal = FALSE
  /\ last = NoCall
  /\ calls = <<>>
  /\ bufs = NoBufs
  /\ ode = NoOde

InsertCall(adrs, size, size_of_T, ranged) ==
  /\ ~fatal
  /\ LET r == Insert(mng, adrs, size, size_of_T, ranged)
     IN  /\ Fits(r.mng, allocs)
         /\ mng' = r.mng
         /\ fatal' = r.fatal
         /\ last' = [NoCall EXCEPT !.op = "Insert", !.adrs = adrs,
                       !.flag = ranged, !.ret = r.ret]
  /\ calls' = <<>>
  /\ UNCHANGED <<xs_shifted, mfem_debug, nvcc, bufs, ode, allocs>>

KnownCall(adrs, insert_if_in_range) ==
  /\ ~fatal
  /\ \E r \in Known(mng, adrs, insert_if_in_range) :
         /\ Fits(r.mng, allocs)
         /\ mng' = r.mng
         /\ fatal' = r.fatal
         /\ last' = [NoCall EXCEPT !.op = "Known", !.adrs = adrs,
                       !.flag = insert_if_in_range, !.known = r.known]
  /\ calls' = <<>>
  /\ UNCHANGED <<xs_shifted, mfem_debug, nvcc, bufs, ode, allocs>>

RangeCall(adrs) ==
  /\ ~fatal
  /\ IF ~AssertRange(mng, adrs)
       THEN /\ fatal' = TRUE
            /\ last' = [NoCall EXCEPT !.op = "Range", !.adrs = adrs]
       ELSE /\ fatal' = FALSE
            /\ \E base \in Range(mng, adrs) :
                 last' = [NoCall EXCEPT !.op = "Range", !.adrs = adrs,
                            !.ret = base]
  /\ calls' = <<>>
  /\ UNCHANGED <<mng, xs_shifted, mfem_debug, nvcc, bufs, ode, allocs>>

\* a slip that hands the device allocation of the record back
EraseCallFrees(adrs) ==
  /\ ~fatal
  /\ LET r == Erase(mng, adrs)
     IN  /\ mng' = r.mng
         /\ fatal' = r.fatal
         /\ last' = [NoCall EXCEPT !.op = "Erase", !.adrs = adrs,
                       !.ret = r.ret]
         /\ allocs' = IF ~r.fatal /\ mng[adrs].d_adrs # NULL
                        THEN allocs - 1 ELSE allocs
  /\ calls' = <<>>
  /\ UNCHANGED <<xs_shifted, mfem_debug, nvcc, bufs, ode>>

EraseCall(adrs) ==
  /\ ~fatal
  /\ LET r == Erase(mng, adrs)
     IN  /\ mng' = r.mng
         /\ fatal' = r.fatal
         /\ last' = [NoCall EXCEPT !.op = "Erase", !.adrs = adrs,
                       !.ret = r.ret]
  /\ calls' = <<>>
  /\ UNCHANGED <<xs_shifted, mfem_debug, nvcc, bufs, ode, allocs>>

\* cuda is what config::Get().Cuda() answers at this call
AdrsCall(adrs, cuda) ==
  /\ ~fatal
  /\ \E r \in Adrs(mng, allocs, adrs, cuda) :
         /\ Fits(r.mng, r.allocs)
         /\ mng' = r.mng
         /\ allocs' = r.allocs
         /\ fatal' = r.fatal
         /\ calls' = r.calls
         /\ last' = [NoCall EXCEPT !.op = "Adrs", !.adrs = adrs,
                       !.flag = cuda, !.ret = r.ret]
  /\ UNCHANGED <<xs_shifted, mfem_debug, nvcc, bufs, ode>>

PushCall(adrs) ==
  /\ ~fatal
  /\ \E r \in Sync(mng, adrs, TRUE) :
         /\ Fits(r.mng, allocs)
         /\ mng' = r.mng
         /\ fatal' = r.fatal
         /\ calls' = r.calls
         /\ last' = [NoCall EXCEPT !.op = "Push", !.adrs = adrs]
  /\ UNCHANGED <<xs_shifted, mfem_debug, nvcc, bufs, ode, allocs>>

PullCall(adrs) ==
  /\ ~fatal
  /\ \E r \in Sync(mng, adrs, FALSE) :
         /\ Fits(r.mng, allocs)
         /\ mng' = r.mng
         /\ fatal' = r.fatal
         /\ calls' = r.calls
         /\ last' = [NoCall EXCEPT !.op = "Pull", !.adrs = adrs]
  /\ UNCHANGED <<xs_shifted, mfem_debug, nvcc, bufs, ode, allocs>>

Next ==
  \/ \E adrs \in CallerAdrs, size \in Counts,
        size_of_T \in SizesOfT, ranged \in CallerRanged :
       InsertCall(adrs, size, size_of_T, ranged)
  \/ \E adrs \in CallerAdrs, iir \in BOOLEAN : KnownCall(adrs, iir)
  \/ \E adrs \in CallerAdrs : RangeCall(adrs)
  \/ \E adrs \in CallerAdrs : EraseCall(adrs)
  \/ \E adrs \in CallerAdrs, cuda \in BOOLEAN : AdrsCall(adrs, cuda)
  \/ \E adrs \in CallerAdrs : PushCall(adrs)
  \/ \E adrs \in CallerAdrs : PullCall(adrs)

Spec == Init /\ [][Next]_vars

\* ------------------------------------------------- the raw copy primitives
\* std::memcpy and the kernels kH2D, kD2H, kD2D, as calls
StdMemcpy(dest, src, bytes) ==
  [fn |-> "std::memcpy", dst |-> dest, src |-> src, bytes |-> bytes]
KernelCopy(fn, dest, src, bytes, async) ==
  [fn |-> fn, dst |-> dest, src |-> src, bytes |-> bytes, async |-> async]

\* what the copy kernels return: their destination
KernelReturn(dest) == dest

\* a slip that forgets the early return for empty copies
H2DNoZeroCheck(dest, src, bytes, async, cuda) ==
  IF ~cuda
    THEN [ret |-> dest, calls |-> <<StdMemcpy(dest, src, bytes)>>]
  ELSE [ret |-> KernelReturn(dest),
        calls |-> <<KernelCopy("kH2D", dest, src, bytes, async)>>]

\* mm::H2D, mm::D2H, mm::D2D: [ret, calls]
H2D(dest, src, bytes, async, cuda) ==
  IF bytes = 0
    THEN [ret |-> dest, calls |-> <<>>]
  ELSE IF ~cuda
    THEN [ret |-> dest, calls |-> <<StdMemcpy(dest, src, bytes)>>]
  ELSE [ret |-> KernelReturn(dest),
        calls |-> <<KernelCopy("kH2D", dest, src, bytes, async)>>]

D2H(dest, src, bytes, async, cuda) ==
  IF bytes = 0
    THEN [ret |-> dest, calls |-> <<>>]
  ELSE IF ~cuda
    THEN [ret |-> dest, calls |-> <<StdMemcpy(dest, src, bytes)>>]
  ELSE [ret |-> KernelReturn(dest),
        calls |-> <<KernelCopy("kD2H", dest, src, bytes, async)>>]

D2D(dest, src, bytes, async, cuda) ==
  IF bytes = 0
    THEN [ret |-> dest, calls |-> <<>>]
  ELSE IF ~cuda
    THEN [ret |-> dest, calls |-> <<StdMemcpy(dest, src, bytes)>>]
  ELSE [ret |-> KernelReturn(dest),
        calls |-> <<KernelCopy("kD2D", dest, src, bytes, async)>>]

\* mm::memcpy
memcpy(dest, src, bytes, cuda) == D2D(dest, src, bytes, FALSE, cuda)

\* the addresses handed to the copy primitives: host buffers and device
\* allocations
CopyAdrs == CallerAdrs \cup { DevAdrs(i) : i \in 1..MaxAllocs }

\* a call of a copy primitive, as `last` keeps it
CopyCall(op, dest, src, bytes, async, cuda, ret) ==
  [op |-> op, adrs |-> dest, flag |-> cuda, ret |-> ret, known |-> FALSE,
   step |-> 0, src |-> src, bytes |-> bytes, async |-> async]

H2DCall(dest, src, bytes, async, cuda) ==
  /\ ~fatal
  /\ LET r == H2D(dest, src, bytes, async, cuda)
     IN  /\ calls' = r.calls
         /\ last' = CopyCall("H2D", dest, src, bytes, async, cuda, r.ret)
  /\ UNCHANGED <<mng, xs_shifted, mfem_debug, nvcc, bufs, ode, allocs, fatal>>

D2HCall(dest, src, bytes, async, cuda) ==
  /\ ~fatal
  /\ LET r == D2H(dest, src, bytes, async, cuda)
     IN  /\ calls' = r.calls
         /\ last' = CopyCall("D2H", dest, src, bytes, async, cuda, r.ret)
  /\ UNCHANGED <<mng, xs_shifted, mfem_debug, nvcc, bufs, ode, allocs, fatal>>

D2DCall(dest, src, bytes, async, cuda) ==
  /\ ~fatal
  /\ LET r == D2D(dest, src, bytes, async, cuda)
     IN  /\ calls' = r.calls
         /\ last' = CopyCall("D2D", dest, src, bytes, async, cuda, r.ret)
  /\ UNCHANGED <<mng, xs_shifted, mfem_debug, nvcc, bufs, ode, allocs, fatal>>

memcpyCall(dest, src, bytes, cuda) ==
  /\ ~fatal
  /\ LET r == memcpy(dest, src, bytes, cuda)
     IN  /\ calls' = r.calls
         /\ last' = CopyCall("memcpy", dest, src, bytes, FALSE, cuda, r.ret)
  /\ UNCHANGED <<mng, xs_shifted, mfem_debug, nvcc, bufs, ode, allocs, fatal>>

NextCopy ==
  \/ \E dest \in CopyAdrs, src \in CopyAdrs, bytes \in Counts,
        async \in BOOLEAN, cuda \in BOOLEAN :
       H2DCall(dest, src, bytes, async, cuda)
  \/ \E dest \in CopyAdrs, src \in CopyAdrs, bytes \in Counts,
        async \in BOOLEAN, cuda \in BOOLEAN :
       D2HCall(dest, src, bytes, async, cuda)
  \/ \E dest \in CopyAdrs, src \in CopyAdrs, bytes \in Counts,
        async \in BOOLEAN, cuda \in BOOLEAN :
       D2DCall(dest, src, bytes, async, cuda)
  \/ \E dest \in CopyAdrs, src \in CopyAdrs, bytes \in Counts,
        cuda \in BOOLEAN :
       memcpyCall(dest, src, bytes, cuda)

SpecCopy == Init /\ [][NextCopy]_vars

\* ------------------------------------------------ the end-to-end scenario
\* Insert(p, 100, 8); Known(p); Adrs(p); Adrs(p); Pull(p); Erase(p);
\* Known(p) in device mode, run after other buffers were registered and
\* resolved.  `last.adrs` is p throughout and `calls` collects the backend
\* calls of the whole scenario.
E2EInsert(adrs) ==
  /\ ~fatal
  /\ last.step = 0
  /\ LET r == Insert(mng, adrs, 100, 8, FALSE)
     IN  /\ Fits(r.mng, allocs)
         /\ mng' = r.mng
         /\ fatal' = r.fatal
         /\ last' = [NoCall EXCEPT !.op = "Insert", !.adrs = adrs,
                       !.ret = r.ret, !.step = 1]
  /\ calls' = <<>>
  /\ UNCHANGED <<xs_shifted, mfem_debug, nvcc, bufs, ode, allocs>>

E2EKnown(step) ==
  /\ ~fatal
  /\ last.step = step - 1
  /\ LET p == IF step = 2 THEN last.ret ELSE last.adrs
     IN  \E r \in Known(mng, p, FALSE) :
           /\ mng' = r.mng
           /\ fatal' = r.fatal
           /\ last' = [NoCall EXCEPT !.op = "Known", !.adrs = p,
                         !.known = r.known, !.step = step]
  /\ UNCHANGED <<xs_shifted, mfem_debug, nvcc, bufs, ode, allocs, calls>>

E2EAdrs(step) ==
  /\ ~fatal
  /\ last.step = step - 1
  /\ \E r \in Adrs(mng, allocs, last.adrs, TRUE) :
         /\ Fits(r.mng, r.allocs)
         /\ mng' = r.mng
         /\ allocs' = r.allocs
         /\ fatal' = r.fatal
         /\ calls' = calls \o r.calls
         /\ last' = [NoCall EXCEPT !.op = "Adrs", !.adrs = last.adrs,
                       !.flag = TRUE, !.ret = r.ret, !.step = step]
  /\ UNCHANGED <<xs_shifted, mfem_debug, nvcc, bufs, ode>>

E2EPull ==
  /\ ~fatal
  /\ last.step = 4
  /\ \E r \in Sync(mng, last.adrs, FALSE) :
         /\ mng' = r.mng
         /\ fatal' = r.fatal
         /\ calls' = calls \o r.calls
         /\ last' = [NoCall EXCEPT !.op = "Pull", !.adrs = last.adrs,
                       !.step = 5]
  /\ UNCHANGED <<xs_shifted, mfem_debug, nvcc, bufs, ode, allocs>>

E2EErase ==
  /\ ~fatal
  /\ last.step = 5
  /\ LET r == Erase(mng, last.adrs)
     IN  /\ mng' = r.mng
         /\ fatal' = r.fatal
         /\ last' = [NoCall EXCEPT !.op = "Erase", !.adrs = last.adrs,
                       !.ret = r.ret, !.step = 6]
  /\ UNCHANGED <<xs_shifted, mfem_debug, nvcc, bufs, ode, allocs, calls>>

NextE2E ==
  \/ \E adrs \in CallerAdrs, size \in Counts, size_of_T \in SizesOfT :
       last.step = 0 /\ InsertCall(adrs, size, size_of_T, FALSE)
  \/ \E adrs \in CallerAdrs :
       last.step = 0 /\ AdrsCall(adrs, TRUE)
  \/ \E adrs \in CallerAdrs : E2EInsert(adrs)
  \/ E2EKnown(2)
  \/ E2EAdrs(3)
  \/ E2EAdrs(4)
  \/ E2EPull
  \/ E2EErase
  \/ E2EKnown(7)

SpecE2E == Init /\ [][NextE2E]_vars

\* ------------------------------------------------ the debug address shifter
\* mm::Setup with XS set or not: `if ((xs_shifted=getenv("XS")))`
InitXS ==
  /\ mng = [x \in {} |-> NULL]
  /\ xs_shifted \in BOOLEAN
  /\ mfem_debug \in BOOLEAN
  /\ nvcc \in BOOLEAN
  /\ allocs = 0
  /\ fatal = FALSE
  /\ last = NoCall
  /\ calls = <<>>
  /\ bufs = NoBufs
  /\ ode = NoOde

\* the buffers callers register: addresses the allocator gave them
BufferAdrs == {0} \X (1..MaxOff)

\* callers register their buffers and use the exact-key operations with the
\* addresses they hold (buffer addresses and what Insert returned)
NextXS ==
  \/ \E adrs \in BufferAdrs, size_of_T \in SizesOfT :
       InsertCall(adrs, 1, size_of_T, FALSE)
  \/ \E adrs \in CallerAdrs : KnownCall(adrs, FALSE)
  \/ \E adrs \in CallerAdrs : EraseCall(adrs)
  \/ \E adrs \in CallerAdrs, cuda \in BOOLEAN : AdrsCall(adrs, cuda)
  \/ \E adrs \in CallerAdrs : PushCall(adrs)
  \/ \E adrs \in CallerAdrs : PullCall(adrs)

SpecXS == InitXS /\ [][NextXS]_vars

\* ------------------------------------------------- pointers into buffers
\* the offsets of the buffers and of the pointers taken into them: the
\* first bytes after a buffer's start and one a whole size_t further on
RangeOffs == (1..MaxOff + 1) \cup {MaxOff + SizeOfSizeT}

\* the addresses callers hold: pointers into their buffers
RangeAdrs == (0..xs_shift) \X RangeOffs

\* the sizes of the buffers: empty, one byte, and long enough to hold two
\* pointers past the start
RangeSizes == {0, 1, MaxOff + 1}

\* a host-only build, with the shifter on or off
InitRange == InitXS /\ ~nvcc

\* callers register buffers and hand pointers into them to Known, Range
\* and Erase, and to Adrs in host mode
NextRange ==
  \/ \E adrs \in BufferAdrs, size \in RangeSizes :
       InsertCall(adrs, size, 1, FALSE)
  \/ \E adrs \in RangeAdrs, iir \in BOOLEAN : KnownCall(adrs, iir)
  \/ \E adrs \in RangeAdrs : RangeCall(adrs)
  \/ \E adrs \in RangeAdrs : EraseCall(adrs)
  \/ \E adrs \in RangeAdrs : AdrsCall(adrs, FALSE)

SpecRange == InitRange /\ [][NextRange]_vars

\* ------------------------------------------- buffer contents and the stream
\* The backend behind okMemAlloc and the okMemcpy calls, after section 5 of
\* the specification: a synchronous copy is done when the call returns; an
\* asynchronous copy returns at once and is carried out later, at a moment
\* the manager neither knows nor waits for.
\* `bufs.host` is the contents of the one host buffer followed, `bufs.dev`
\* the contents of each device allocation, `bufs.inflight` the asynchronous
\* copies issued and not yet carried out, `bufs.saved` the host contents at
\* the last materialization.
AsyncBuffer == <<0, 1>>

\* what the caller may have written to the buffer
Contents == {"a", "b"}

\* the effect of one backend call on the contents
BackendCall(b, c) ==
  IF c.fn = "okMemAlloc"
    THEN [b EXCEPT !.dev = [d \in DOMAIN b.dev \cup {c.dst} |->
                              IF d = c.dst THEN "junk" ELSE b.dev[d]]]
  ELSE IF c.bytes = 0
    THEN b
  ELSE IF c.fn = "okMemcpyHtoDAsync"
    THEN [b EXCEPT !.inflight = Append(@, c)]
  ELSE IF c.fn = "okMemcpyHtoD"
    THEN [b EXCEPT !.dev[c.dst] = b.host]
  ELSE [b EXCEPT !.host = b.dev[c.src]]

\* the effect of the calls of one operation, in the order issued
RECURSIVE Backend(_, _)
Backend(b, cs) ==
  IF cs = <<>> THEN b ELSE Backend(BackendCall(b, Head(cs)), Tail(cs))

\* Insert of the buffer, which the caller has filled with c
BufInsert(adrs, c) ==
  /\ ~fatal
  /\ LET r == Insert(mng, adrs, 1, 1, FALSE)
     IN  /\ Fits(r.mng, allocs)
         /\ mng' = r.mng
         /\ fatal' = r.fatal
         /\ last' = [NoCall EXCEPT !.op = "Insert", !.adrs = adrs,
                       !.ret = r.ret]
  /\ calls' = <<>>
  /\ bufs' = [bufs EXCEPT !.host = c, !.saved = "none"]
  /\ UNCHANGED <<xs_shifted, mfem_debug, nvcc, ode, allocs>>

\* Adrs in device mode
BufAdrs(adrs) ==
  /\ ~fatal
  /\ \E r \in Adrs(mng, allocs, adrs, TRUE) :
         /\ Fits(r.mng, r.allocs)
         /\ mng' = r.mng
         /\ allocs' = r.allocs
         /\ fatal' = r.fatal
         /\ calls' = r.calls
         /\ last' = [NoCall EXCEPT !.op = "Adrs", !.adrs = adrs,
                       !.flag = TRUE, !.ret = r.ret]
         /\ bufs' = [Backend(bufs, r.calls) EXCEPT
                       !.saved = IF r.calls # <<>> THEN bufs.host
                                 ELSE "none"]
  /\ UNCHANGED <<xs_shifted, mfem_debug, nvcc, ode>>

\* Push (push = TRUE) and Pull (push = FALSE)
BufSync(adrs, push) ==
  /\ ~fatal
  /\ \E r \in Sync(mng, adrs, push) :
         /\ Fits(r.mng, allocs)
         /\ mng' = r.mng
         /\ fatal' = r.fatal
         /\ calls' = r.calls
         /\ last' = [NoCall EXCEPT !.op = IF push THEN "Push" ELSE "Pull",
                       !.adrs = adrs]
         /\ bufs' = Backend(bufs, r.calls)
  /\ UNCHANGED <<xs_shifted, mfem_debug, nvcc, ode, allocs>>

\* Erase: the contents and the copies in flight stay as they are
BufErase(adrs) ==
  /\ ~fatal
  /\ LET r == Erase(mng, adrs)
     IN  /\ mng' = r.mng
         /\ fatal' = r.fatal
         /\ last' = [NoCall EXCEPT !.op = "Erase", !.adrs = adrs,
                       !.ret = r.ret]
  /\ calls' = <<>>
  /\ UNCHANGED <<xs_shifted, mfem_debug, nvcc, bufs, ode, allocs>>

\* the stream carries out the oldest asynchronous copy
StreamCompletes ==
  /\ ~fatal
  /\ bufs.inflight # <<>>
  /\ bufs' = [bufs EXCEPT
                !.dev[Head(bufs.inflight).dst] = bufs.host,
                !.inflight = Tail(@)]
  /\ UNCHANGED <<mng, xs_shifted, mfem_debug, nvcc, ode, allocs, fatal,
                 last, calls>>

NextAsync ==
  \/ \E c \in Contents : BufInsert(AsyncBuffer, c)
  \/ BufAdrs(AsyncBuffer)
  \/ \E push \in BOOLEAN : BufSync(AsyncBuffer, push)
  \/ BufErase(AsyncBuffer)
  \/ StreamCompletes

SpecAsync == Init /\ [][NextAsync]_vars

\* ------------------------------------ the SUNDIALS time-integrator adapters
\* CVODESolver and ARKStepSolver (linalg/sundials.cpp), serial case. `ode`
\* holds the adapter: its kind and rk_type, whether sundials_mem is set,
\* NV_LENGTH_S(y), the last `flag`, how often solver memory was created and
\* reinitialized, and the arguments of the last Init.
RkTypes == {"EXPLICIT", "IMPLICIT", "IMEX"}

\* Height() of the operator and Size() of the vector; GetTime() and t
VectorSizes == 1..MaxOff
Times == {0, 1}

NoArgs == [imex |-> FALSE, height |-> 0, size |-> 0, ftime |-> 0, t |-> 0,
           lib_ok |-> TRUE]

\* the constructors: SundialsSolver() sets sundials_mem(NULL) and flag(0),
\* y is an empty N_Vector
NewSolver(kind, rk_type) ==
  [kind |-> kind, rk_type |-> rk_type, sundials_mem |-> FALSE,
   length |-> 0, flag |-> "SUCCESS", creates |-> 0, reinits |-> 0,
   inits |-> 0, args |-> NoArgs]

\* the outcome of a library call, as stored in `flag`
LibFlag(lib_ok) == IF lib_ok THEN "SUCCESS" ELSE "FAILURE"

\* CVODESolver::Create and ARKStepSolver::Create: [ode, fatal]; lib_ok says
\* whether the library calls succeed
Create(o, size, lib_ok) ==
  [ode |-> [o EXCEPT !.length = size, !.sundials_mem = lib_ok,
                     !.flag = LibFlag(lib_ok), !.creates = @ + 1],
   fatal |-> ~lib_ok]

\* MFEM_VERIFY(flag == CV_SUCCESS, "error in CVodeReInit()")
CVodeReInitVerify(o) == o.flag = "SUCCESS"

\* MFEM_VERIFY(sundials_mem, "error in ARKStepReInit()")
ARKStepReInitVerify(o) == o.sundials_mem

\* the `else` branch of Init: the size check, then the reinitialization
ReInit(o, size, lib_ok) ==
  IF o.length # size
    THEN [ode |-> o, fatal |-> TRUE]
  ELSE LET n == [o EXCEPT !.flag = LibFlag(lib_ok), !.reinits = @ + 1]
       IN  [ode |-> n,
            fatal |-> IF o.kind = "CVODE" THEN ~CVodeReInitVerify(n)
                      ELSE ~ARKStepReInitVerify(n)]

\* CVODESolver::Init(f_, t, x): [ode, fatal]
CVODESolverInit(o, height, size, ftime, t, lib_ok) ==
  IF height # size THEN [ode |-> o, fatal |-> TRUE]
  ELSE IF ftime # t THEN [ode |-> o, fatal |-> TRUE]
  ELSE IF ~o.sundials_mem THEN Create(o, size, lib_ok)
  ELSE ReInit(o, size, lib_ok)

\* ARKStepSolver::Init(f_, t, x) (imex = FALSE) and
\* ARKStepSolver::Init(f_, f2_, t, x) (imex = TRUE): [ode, fatal]
ARKStepSolverInit(o, imex, height, size, ftime, t, lib_ok) ==
  IF imex # (o.rk_type = "IMEX") THEN [ode |-> o, fatal |-> TRUE]
  ELSE IF height # size THEN [ode |-> o, fatal |-> TRUE]
  ELSE IF ftime # t THEN [ode |-> o, fatal |-> TRUE]
  ELSE IF ~o.sundials_mem THEN Create(o, size, lib_ok)
  ELSE ReInit(o, size, lib_ok)

\* an adapter has been constructed; the memory manager is not involved
InitSundials ==
  /\ mng = [x \in {} |-> NULL]
  /\ xs_shifted = FALSE
  /\ mfem_debug = FALSE
  /\ nvcc = FALSE
  /\ allocs = 0
  /\ fatal = FALSE
  /\ last = NoCall
  /\ calls = <<>>
  /\ bufs = NoBufs
  /\ ode \in { NewSolver("CVODE", "none") }
            \cup { NewSolver("ARKStep", rk) : rk \in RkTypes }

\* a call of Init with its arguments recorded
InitCall(r, imex, height, size, ftime, t, lib_ok) ==
  /\ ode' = [r.ode EXCEPT !.inits = @ + 1,
               !.args = [imex |-> imex, height |-> height, size |-> size,
                         ftime |-> ftime, t |-> t, lib_ok |-> lib_ok]]
  /\ fatal' = r.fatal
  /\ UNCHANGED <<mng, xs_shifted, mfem_debug, nvcc, allocs, last, calls,
                 bufs>>

CVODEInitCall(height, size, ftime, t, lib_ok) ==
  /\ ~fatal
  /\ ode.kind = "CVODE"
  /\ ode.inits < MaxInits
  /\ InitCall(CVODESolverInit(ode, height, size, ftime, t, lib_ok),
              FALSE, height, size, ftime, t, lib_ok)

ARKStepInitCall(imex, height, size, ftime, t, lib_ok) ==
  /\ ~fatal
  /\ ode.kind = "ARKStep"
  /\ ode.inits < MaxInits
  /\ InitCall(ARKStepSolverInit(ode, imex, height, size, ftime, t, lib_ok),
              imex, height, size, ftime, t, lib_ok)

NextSundials ==
  \/ \E height \in VectorSizes, size \in VectorSizes,
        ftime \in Times, t \in Times, lib_ok \in BOOLEAN :
       CVODEInitCall(height, size, ftime, t, lib_ok)
  \/ \E imex \in BOOLEAN, height \in VectorSizes, size \in VectorSizes,
        ftime \in Times, t \in Times, lib_ok \in BOOLEAN :
       ARKStepInitCall(imex, height, size, ftime, t, lib_ok)

SpecSundials == InitSundials /\ [][NextSundials]_vars

\* ----------------------------------------------------------------- claims
\* the byte extent [b, b+bytes) of the entry keyed b contains the address p
InExtent(m, b, p) ==
  /\ b[1] = p[1]
  /\ b[2] <= p[2]
  /\ p[2] < b[2] + m[b].bytes

\* the key Insert files a caller address under
InsertKey(adrs) == SegPlus(adrs, xs_shift)

\* C1: Insert(p, n, s) of an address that is not registered succeeds, and
\* right after it p is known and its record has n*s bytes, no device address
\* and the host as resident side (n = 0 and s = 0 included).
C1_InsertRegisters ==
  [][\A adrs \in CallerAdrs, size \in Counts, size_of_T \in SizesOfT,
        ranged \in CallerRanged :
       (/\ last'.op = "Insert"
        /\ last'.adrs = adrs
        /\ InsertKey(adrs) \notin DOMAIN mng
        /\ InsertCall(adrs, size, size_of_T, ranged))
       => (/\ ~fatal'
           /\ last'.ret = InsertKey(adrs)
           /\ InsertKey(adrs) \in DOMAIN mng'
           /\ mng'[InsertKey(adrs)].bytes = size * size_of_T
           /\ mng'[InsertKey(adrs)].d_adrs = NULL
           /\ mng'[InsertKey(adrs)].host = TRUE
           /\ \A r \in Known(mng', InsertKey(adrs), FALSE) : r.known)]_vars

C1_Witness ==
  /\ last.op = "Insert"
  /\ ~fatal
  /\ mfem_debug
  /\ last.ret \in DOMAIN mng
  /\ mng[last.ret].bytes = 0
  /\ mng[last.ret].host
  /\ mng[last.ret].d_adrs = NULL

\* C2: for a block registered at b with n bytes and 0 <= k < n,
\* Known(b+k, TRUE) returns true, and when b+k was no key it adds exactly one
\* record, keyed b+k, of n-k bytes.
C2_SubRangeBytes ==
  [][\A b \in DOMAIN mng :
       (/\ last'.op = "Known"
        /\ last'.flag
        /\ InExtent(mng, b, last'.adrs))
       => (/\ ~fatal'
           /\ last'.known
           /\ last'.adrs \notin DOMAIN mng
              => (/\ DOMAIN mng' = DOMAIN mng \cup {last'.adrs}
                  /\ \A x \in DOMAIN mng : mng'[x] = mng[x]
                  /\ mng'[last'.adrs].bytes
                       = mng[b].bytes - (last'.adrs[2] - b[2])))]_vars

\* C3: Range(probe) returns b only if probe lies in [b, b+bytes(b)), and NULL
\* when no registered block's extent contains probe; Known(probe, TRUE) then
\* returns false and adds no record.
C3_RangeHalfOpen ==
  [][/\ (last'.op = "Range" /\ ~fatal')
        => (/\ last'.ret # NULL
               => (/\ last'.ret \in DOMAIN mng
                   /\ InExtent(mng, last'.ret, last'.adrs))
            /\ (\A b \in DOMAIN mng : ~InExtent(mng, b, last'.adrs))
               => last'.ret = NULL)
     /\ (/\ last'.op = "Known"
         /\ last'.flag
         /\ last'.adrs \notin DOMAIN mng
         /\ \A b \in DOMAIN mng : ~InExtent(mng, b, last'.adrs))
        => (~last'.known /\ mng' = mng)]_vars

\* C4: in device mode consecutive Resolve(p) calls all return the same
\* device address, and only the first of them copies host to device.
\* Stated of the state a device-mode Resolve(p) has just left: the next
\* Resolve(p) returns what this one returned and issues no backend call.
C4_ResolveIdempotent ==
  (last.op = "Adrs" /\ last.flag /\ ~fatal)
  => \A r \in Adrs(mng, allocs, last.adrs, TRUE) :
       /\ ~r.fatal
       /\ r.ret = last.ret
       /\ r.calls = <<>>

\* C5: with device execution disabled, Resolve(p) of a registered p returns
\* p, allocates nothing, copies nothing and leaves the record as it was.
C5_HostModeResolve ==
  [][(/\ last'.op = "Adrs"
      /\ ~last'.flag
      /\ last'.adrs \in DOMAIN mng
      /\ mng[last'.adrs].h_adrs = last'.adrs)
     => (/\ ~fatal'
         /\ last'.ret = last'.adrs
         /\ calls' = <<>>
         /\ allocs' = allocs
         /\ mng' = mng)]_vars

\* C6: in device mode (device support compiled in), Resolve(p) of a record
\* without device address allocates byteSize bytes once (not at all when
\* byteSize = 0), then copies byteSize bytes from the record's host address
\* to the device once, makes the device the resident side, stores the
\* allocated address in the record and returns it.
C6_FirstResolveMaterializes ==
  [][(/\ last'.op = "Adrs"
      /\ last'.flag
      /\ nvcc
      /\ last'.adrs \in DOMAIN mng
      /\ mng[last'.adrs].d_adrs = NULL)
     => LET rec == mng[last'.adrs]
            d   == last'.ret
            copy == [fn |-> "okMemcpyHtoDAsync", dst |-> d,
                     src |-> rec.h_adrs, bytes |-> rec.bytes]
            alloc == [fn |-> "okMemAlloc", dst |-> d, src |-> NULL,
                      bytes |-> rec.bytes]
        IN  /\ ~fatal'
            /\ IF rec.bytes = 0
                 THEN d = NULL /\ calls' = <<copy>> /\ allocs' = allocs
                 ELSE /\ d = DevAdrs(allocs')
                      /\ allocs' = allocs + 1
                      /\ calls' = <<alloc, copy>>
            /\ mng' = [mng EXCEPT ![last'.adrs] =
                         [rec EXCEPT !.host = FALSE, !.d_adrs = d]]]_vars

C6_Witness ==
  /\ last.op = "Adrs"
  /\ last.flag
  /\ ~fatal
  /\ Len(calls) = 2
  /\ calls[1].fn = "okMemAlloc"
  /\ calls[2].fn = "okMemcpyHtoDAsync"
  /\ mng[last.adrs].d_adrs = last.ret
  /\ ~mng[last.adrs].host

\* C7: Push(p) and Pull(p) of a registered record issue no backend call when
\* the host is the resident side; otherwise exactly one synchronous copy of
\* byteSize bytes, host to device for Push and device to host for Pull.
C7_PushPullCopies ==
  [][(/\ last'.op \in {"Push", "Pull"}
      /\ last'.adrs \in DOMAIN mng)
     => LET rec == mng[last'.adrs]
        IN  /\ ~fatal'
            /\ rec.host => calls' = <<>>
            /\ (~rec.host /\ last'.op = "Push")
               => calls' = <<[fn |-> "okMemcpyHtoD", dst |-> rec.d_adrs,
                              src |-> rec.h_adrs, bytes |-> rec.bytes]>>
            /\ (~rec.host /\ last'.op = "Pull")
               => calls' = <<[fn |-> "okMemcpyDtoH", dst |-> rec.h_adrs,
                              src |-> rec.d_adrs, bytes |-> rec.bytes]>>]_vars

C7_Witness ==
  /\ last.op = "Pull"
  /\ ~fatal
  /\ Len(calls) = 1
  /\ calls[1].fn = "okMemcpyDtoH"
  /\ calls[1].bytes > 0
  /\ calls[1].dst = last.adrs

\* C8: Erase of the address Insert has just registered removes the entry:
\* the exact lookup Known(p) is then false and a fresh Insert of the same
\* buffer succeeds again.
C8_EraseAfterInsert ==
  [][/\ (/\ last.op = "Insert" /\ ~fatal
         /\ last'.op = "Erase" /\ last'.adrs = last.ret)
        => (/\ ~fatal'
            /\ last.ret \notin DOMAIN mng'
            /\ last'.ret = last.adrs)
     /\ (/\ last.op = "Erase" /\ ~fatal
         /\ last'.op = "Known" /\ ~last'.flag
         /\ last'.adrs = last.adrs)
        => (~fatal' /\ ~last'.known)
     /\ (/\ last.op = "Erase" /\ ~fatal
         /\ last'.op = "Insert"
         /\ InsertKey(last'.adrs) = last.adrs)
        => (/\ ~fatal'
            /\ last'.ret = last.adrs
            /\ last.adrs \in DOMAIN mng')]_vars

C8_Witness ==
  /\ last.op = "Erase"
  /\ ~fatal
  /\ last.adrs \notin DOMAIN mng
  /\ allocs > 0

\* C9: Erase of an address that is no key is fatal in every build and leaves
\* the registry as it was.
C9_EraseUnknownFatal ==
  [][(/\ last'.op = "Erase"
      /\ last'.adrs \notin DOMAIN mng)
     => (fatal' /\ mng' = mng)]_vars

C9_Witness ==
  /\ last.op = "Erase"
  /\ fatal
  /\ ~mfem_debug
  /\ last.adrs \notin DOMAIN mng
  /\ DOMAIN mng # {}

\* C10: Insert of an address that is a key with a record that is not ranged
\* is fatal and leaves the record (and the registry) as it was.
C10_InsertDuplicateFatal ==
  [][(/\ last'.op = "Insert"
      /\ InsertKey(last'.adrs) \in DOMAIN mng
      /\ ~mng[InsertKey(last'.adrs)].ranged)
     => (fatal' /\ mng' = mng)]_vars

C10_Witness ==
  /\ last.op = "Insert"
  /\ fatal
  /\ ~mfem_debug
  /\ InsertKey(last.adrs) \in DOMAIN mng
  /\ ~mng[InsertKey(last.adrs)].ranged
  /\ ~mng[InsertKey(last.adrs)].host

\* C11: Insert of an address that is a key with a record marked ranged is
\* fatal in every build and leaves the record (and the registry) as it was.
C11_InsertRangedFatal ==
  [][(/\ last'.op = "Insert"
      /\ InsertKey(last'.adrs) \in DOMAIN mng
      /\ mng[InsertKey(last'.adrs)].ranged)
     => (fatal' /\ mng' = mng)]_vars

\* C12: Push and Pull of an address that is no key are fatal in every build,
\* issue no backend copy and leave the registry as it was.
C12_SyncUnknownFatal ==
  [][(/\ last'.op \in {"Push", "Pull"}
      /\ last'.adrs \notin DOMAIN mng)
     => (fatal' /\ calls' = <<>> /\ mng' = mng)]_vars

\* C13: in device mode Resolve(a) of an address that is no key and lies in
\* no registered block's extent is fatal, allocates nothing, copies nothing
\* and adds no entry; when a lies inside a registered block, Resolve first
\* registers a as a sub-range record.
C13_ResolveUnknownFatal ==
  [][(/\ last'.op = "Adrs"
      /\ last'.flag
      /\ last'.adrs \notin DOMAIN mng)
     => IF \A b \in DOMAIN mng : ~InExtent(mng, b, last'.adrs)
          THEN /\ fatal'
               /\ calls' = <<>>
               /\ allocs' = allocs
               /\ mng' = mng
          ELSE /\ last'.adrs \in DOMAIN mng'
               /\ mng'[last'.adrs].ranged]_vars

\* C14: when device execution is requested and device support is not
\* compiled in, Resolve(p) of a record without device address is fatal
\* before any allocation or copy and leaves the record as it was.
C14_DeviceUnavailable ==
  [][(/\ last'.op = "Adrs"
      /\ last'.flag
      /\ ~nvcc
      /\ last'.adrs \in DOMAIN mng
      /\ mng[last'.adrs].d_adrs = NULL)
     => (/\ fatal'
         /\ calls' = <<>>
         /\ allocs' = allocs
         /\ mng' = mng)]_vars

C14_Witness ==
  /\ last.op = "Adrs"
  /\ last.flag
  /\ fatal
  /\ ~nvcc
  /\ last.adrs \in DOMAIN mng
  /\ mng[last.adrs].host
  /\ mng[last.adrs].bytes > 0
  /\ mng[last.adrs].d_adrs = NULL

\* C16: the resident side of a registered record changes only in a Push or
\* a Pull; Resolve never changes it.
C16_SideChangesOnlyBySync ==
  [][\A k \in DOMAIN mng \cap DOMAIN mng' :
       mng'[k].host # mng[k].host => last'.op \in {"Push", "Pull"}]_vars

\* C16 as amended: Push and Pull never change the resident side of a
\* registered record; Resolve changes it only for the record it resolves,
\* from host to device, in the call that issues the host-to-device copy.
C16_SideChangesOnlyByResolve ==
  [][\A k \in DOMAIN mng \cap DOMAIN mng' :
       /\ last'.op \in {"Push", "Pull"} => mng'[k].host = mng[k].host
       /\ (last'.op = "Adrs" /\ mng'[k].host # mng[k].host)
          => (/\ k = last'.adrs
              /\ mng[k].host
              /\ ~mng'[k].host
              /\ calls' # <<>>
              /\ calls'[Len(calls')].fn = "okMemcpyHtoDAsync")]_vars

C16_Witness ==
  /\ last.op = "Push"
  /\ ~fatal
  /\ Len(calls) = 1
  /\ calls[1].fn = "okMemcpyHtoD"
  /\ last.adrs \in DOMAIN mng
  /\ ~mng[last.adrs].host
  /\ mng[last.adrs].d_adrs # NULL

\* the byte extents of the entries keyed a and b share a byte
Overlap(m, a, b) ==
  /\ m[a].bytes > 0
  /\ m[b].bytes > 0
  /\ a[1] = b[1]
  /\ a[2] < b[2] + m[b].bytes
  /\ b[2] < a[2] + m[a].bytes

\* C17: in every state reached without a fatal error, the byte extents of
\* two records that are not sub-range records are disjoint.
C17_ExtentsDisjoint ==
  ~fatal =>
    \A a, b \in DOMAIN mng :
      (a # b /\ ~mng[a].ranged /\ ~mng[b].ranged) => ~Overlap(mng, a, b)

\* C20: in every reachable state a registered record has no device address
\* exactly when the host is its resident side.
C20_NullIffHost ==
  \A k \in DOMAIN mng :
    mng[k].h_adrs = k => (mng[k].d_adrs = NULL <=> mng[k].host)

\* C19: H2D, D2H and D2D called with bytes = 0 return dest and call neither
\* a copy kernel nor std::memcpy, whatever the execution mode and the async
\* flag.
C19_EmptyCopyIsNoOp ==
  (last.op \in {"H2D", "D2H", "D2D"} /\ last.bytes = 0)
  => (last.ret = last.adrs /\ calls = <<>>)

C19_Witness ==
  /\ last.op = "H2D"
  /\ last.bytes = 0
  /\ last.flag
  /\ last.async
  /\ last.ret = last.adrs
  /\ last.adrs # last.src
  /\ calls = <<>>

\* C15: in device mode (device support compiled in) the sequence
\* Insert(p,100,8); Known(p); Resolve(p); Resolve(p); Pull(p); Erase(p);
\* Known(p) of a fresh p never fails; the first Known is true; the backend
\* calls are an allocation of 800 bytes and a host-to-device copy of 800
\* bytes (first Resolve), nothing (second Resolve, same address d returned)
\* and a device-to-host copy of 800 bytes (Pull), in that order; the last
\* Known is false.
C15_EndToEnd ==
  (nvcc /\ last.step >= 1 /\ ~(last.step = 1 /\ fatal))
  => LET p == IF last.step = 1 THEN last.ret ELSE last.adrs
         d == calls[1].dst
         upload == <<MemAlloc(d, 100 * 8), MemcpyHtoDAsync(d, p, 100 * 8)>>
     IN  /\ ~fatal
         /\ last.step = 1 => (calls = <<>> /\ mng[p].bytes = 100 * 8)
         /\ last.step = 2 => (calls = <<>> /\ last.known)
         /\ last.step \in {3, 4}
            => (calls = upload /\ d # NULL /\ last.ret = d)
         /\ last.step \in {5, 6, 7}
            => (d # NULL /\ calls = upload \o <<MemcpyDtoH(p, d, 100 * 8)>>)
         /\ last.step = 7 => (~last.known /\ p \notin DOMAIN mng)

C15_Witness ==
  /\ last.step = 7
  /\ ~fatal
  /\ nvcc
  /\ ~last.known
  /\ Len(calls) = 3
  /\ calls[3].fn = "okMemcpyDtoH"
  /\ calls[3].bytes = 100 * 8
  /\ DOMAIN mng # {}

\* C18: with the shifter enabled every operation files or looks up the
\* address it is given offset by the constant, and Insert, Erase and
\* host-mode Resolve return the offset address; with the shifter disabled
\* they use and return the address unchanged.
C18_ShifterOffsetsAll ==
  [][/\ (last'.op = "Insert" /\ ~fatal')
        => (/\ last'.ret = SegPlus(last'.adrs, xs_shift)
            /\ DOMAIN mng' = DOMAIN mng \cup {SegPlus(last'.adrs, xs_shift)})
     /\ (last'.op = "Erase" /\ ~fatal')
        => (/\ last'.ret = SegPlus(last'.adrs, xs_shift)
            /\ DOMAIN mng' = DOMAIN mng \ {SegPlus(last'.adrs, xs_shift)})
     /\ (last'.op = "Adrs" /\ ~last'.flag /\ ~fatal' /\ calls' = <<>>
         /\ last'.adrs \in DOMAIN mng' /\ mng'[last'.adrs].host
         /\ mng'[last'.adrs].h_adrs = last'.adrs)
        => last'.ret = SegPlus(last'.adrs, xs_shift)]_vars

\* C18 as amended: with the shifter enabled Insert files the caller address
\* offset by the constant and returns the offset address; the exact lookup
\* of Known, Erase, Resolve, Push and Pull use the address they are given as
\* the key, not offset again; Erase returns its argument, and host-mode
\* Resolve of a host-resident record the record's host address, with the
\* offset removed, which for a record made by Insert is the address passed
\* to Insert.  With the shifter disabled all of them use and return the
\* address unchanged.
C18_ShifterHandles ==
  [][/\ (last'.op = "Insert" /\ ~fatal')
        => (/\ last'.ret = SegPlus(last'.adrs, xs_shift)
            /\ DOMAIN mng' = DOMAIN mng \cup {last'.ret}
            /\ mng'[last'.ret].h_adrs = last'.ret)
     /\ (last'.op = "Known" /\ ~last'.flag)
        => (last'.known <=> last'.adrs \in DOMAIN mng)
     /\ (last'.op = "Erase" /\ ~fatal')
        => (/\ last'.adrs \in DOMAIN mng
            /\ DOMAIN mng' = DOMAIN mng \ {last'.adrs}
            /\ last'.ret = SegMinus(last'.adrs, xs_shift))
     /\ (last'.op = "Adrs" /\ ~last'.flag
         /\ last'.adrs \in DOMAIN mng /\ mng[last'.adrs].host)
        => (/\ ~fatal'
            /\ mng' = mng
            /\ last'.ret = SegMinus(mng[last'.adrs].h_adrs, xs_shift))
     /\ (last'.op \in {"Push", "Pull"}
         /\ last'.adrs \in DOMAIN mng /\ ~mng[last'.adrs].host)
        => (/\ Len(calls') = 1
            /\ {calls'[1].dst, calls'[1].src}
                 = {mng[last'.adrs].h_adrs, mng[last'.adrs].d_adrs}
            /\ calls'[1].bytes = mng[last'.adrs].bytes)
     /\ (/\ last.op = "Insert" /\ ~fatal
         /\ last'.op \in {"Erase", "Adrs"} /\ ~last'.flag
         /\ last'.adrs = last.ret)
        => (~fatal' /\ last'.ret = last.adrs)
     /\ ~xs_shifted
        => (/\ (last'.op \in {"Insert", "Erase"} /\ ~fatal')
               => last'.ret = last'.adrs
            /\ (last'.op = "Adrs" /\ ~last'.flag /\ ~fatal' /\ calls' = <<>>
                /\ mng'[last'.adrs].host /\ mng'[last'.adrs].h_adrs # NULL)
               => last'.ret = last'.adrs)]_vars

C18_Witness ==
  /\ xs_shifted
  /\ last.op = "Erase"
  /\ ~fatal
  /\ last.adrs[1] = 1
  /\ last.ret[1] = 0
  /\ last.ret[2] = last.adrs[2]
  /\ last.adrs \notin DOMAIN mng

\* C21: Push and Pull of a registered address change no field of any record
\* and leave the set of keys as it was; all they do is issue at most one
\* synchronous copy of the record's bytes between its two addresses.
C21_SyncChangesNoRecord ==
  [][(/\ last'.op \in {"Push", "Pull"}
      /\ last'.adrs \in DOMAIN mng)
     => (/\ mng' = mng
         /\ allocs' = allocs
         /\ ~fatal'
         /\ calls' \in {<<>>, <<PushCopy(mng[last'.adrs])>>,
                        <<PullCopy(mng[last'.adrs])>>})]_vars

C21_Witness ==
  /\ last.op = "Pull"
  /\ ~fatal
  /\ last.adrs \in DOMAIN mng
  /\ mng[last.adrs].ranged
  /\ calls = <<PullCopy(mng[last.adrs])>>

\* C22: a record that Known registers for an address inside a block is a
\* sub-range record, a record that Insert registers without asking for
\* `ranged` is not, and the flag of a record does not change while its key
\* stays registered.
C22_RangedFlagStable ==
  [][/\ (/\ last'.op = "Known" /\ last'.flag /\ last'.known
         /\ last'.adrs \notin DOMAIN mng
         /\ last'.adrs \in DOMAIN mng')
        => mng'[last'.adrs].ranged
     /\ (/\ last'.op = "Insert" /\ ~last'.flag /\ ~fatal')
        => ~mng'[last'.ret].ranged
     /\ \A k \in DOMAIN mng \cap DOMAIN mng' :
          mng'[k].ranged = mng[k].ranged]_vars

\* C24: Erase issues no backend call, the number of device allocations
\* never goes down, and after Erase no record holds the device address of
\* the erased one: its allocation is neither freed nor reachable.
C24_EraseReclaimsNothing ==
  [][/\ allocs' >= allocs
     /\ \A i \in 1..Len(calls') : calls'[i].fn \in
          {"okMemAlloc", "okMemcpyHtoDAsync", "okMemcpyHtoD", "okMemcpyDtoH"}
     /\ (/\ last'.op = "Erase"
         /\ last'.adrs \in DOMAIN mng)
        => (/\ calls' = <<>>
            /\ allocs' = allocs
            /\ \A k \in DOMAIN mng' :
                 \/ mng'[k].d_adrs = NULL
                 \/ mng'[k].d_adrs # mng[last'.adrs].d_adrs)]_vars

C24_Witness ==
  /\ last.op = "Erase"
  /\ ~fatal
  /\ allocs > 0
  /\ \A k \in DOMAIN mng : mng[k].d_adrs = NULL

\* C25: Erase(b) removes the entry keyed b and nothing else: every other
\* entry, the sub-range records inside b included, is left as it was, its
\* key is still known, and Resolve, Push and Pull of it do what they would
\* have done with b still registered.
C25_EraseRemovesOneEntry ==
  [][(/\ last'.op = "Erase"
      /\ last'.adrs \in DOMAIN mng)
     => (/\ mng' = [x \in DOMAIN mng \ {last'.adrs} |-> mng[x]]
         /\ \A k \in DOMAIN mng' :
              /\ Known(mng', k, FALSE) =
                   {[known |-> TRUE, mng |-> mng', fatal |-> FALSE]}
              /\ \A push \in BOOLEAN :
                   /\ \A r \in Sync(mng', k, push) : ~r.fatal
                   /\ { r.calls : r \in Sync(mng', k, push) } =
                        { r.calls : r \in Sync(mng, k, push) }
              /\ \A cuda \in BOOLEAN :
                   /\ \A r \in Adrs(mng', allocs', k, cuda) :
                        nvcc => ~r.fatal
                   /\ { <<r.ret, r.fatal, r.calls>> :
                          r \in Adrs(mng', allocs', k, cuda) } =
                        { <<r.ret, r.fatal, r.calls>> :
                          r \in Adrs(mng, allocs, k, cuda) })]_vars

C25_Witness ==
  /\ last.op = "Erase"
  /\ ~fatal
  /\ last.adrs \notin DOMAIN mng
  /\ \E k \in DOMAIN mng :
       /\ mng[k].ranged
       /\ mng[k].h_adrs = k
       /\ AdrsLT(last.adrs, k)

\* C26: a sub-range record is materialized on its own. Known creates it on
\* the host side with no device address, whatever the state of the block it
\* lies in, and its first device-mode Resolve makes an allocation of its own
\* and copies the record's bytes to it: the address returned is the new
\* allocation, which no record held before.
C26_SubRangeOwnMirror ==
  [][/\ (/\ last'.op = "Known" /\ last'.flag /\ last'.known
         /\ last'.adrs \notin DOMAIN mng)
        => (/\ last'.adrs \in DOMAIN mng'
            /\ mng'[last'.adrs].host
            /\ mng'[last'.adrs].d_adrs = NULL)
     /\ (/\ last'.op = "Adrs" /\ last'.flag /\ ~fatal'
         /\ last'.adrs \in DOMAIN mng
         /\ mng[last'.adrs].ranged
         /\ mng[last'.adrs].d_adrs = NULL
         /\ mng[last'.adrs].bytes > 0)
        => (/\ allocs' = allocs + 1
            /\ last'.ret = DevAdrs(allocs')
            /\ \A k \in DOMAIN mng : mng[k].d_adrs # last'.ret
            /\ mng'[last'.adrs].d_adrs = last'.ret
            /\ calls' = <<MemAlloc(last'.ret, mng[last'.adrs].bytes),
                          MemcpyHtoDAsync(last'.ret, last'.adrs,
                                          mng[last'.adrs].bytes)>>)]_vars

C26_Witness ==
  /\ last.op = "Adrs"
  /\ last.flag
  /\ ~fatal
  /\ mng[last.adrs].ranged
  /\ Len(calls) = 2
  /\ \E b \in DOMAIN mng :
       /\ ~mng[b].ranged
       /\ AdrsLT(b, last.adrs)
       /\ mng[b].d_adrs \notin {NULL, last.ret}

\* an original block keyed b whose n bytes hold b+k for some 0 < k < n,
\* where p = b+k is no key
ProbeInBlock(m, b, p) ==
  /\ b \in DOMAIN m
  /\ p \notin DOMAIN m
  /\ ~m[b].ranged
  /\ m[b].h_adrs = b
  /\ b[1] = p[1]
  /\ 0 < p[2] - b[2]
  /\ p[2] - b[2] < m[b].bytes

\* every other record is a sub-range record b+j of the block, 0 < j < k
OnlySubRangesBelow(m, b, p) ==
  \A k \in DOMAIN m \ {b} :
    /\ m[k].ranged
    /\ m[k].h_adrs = k
    /\ AdrsLT(b, k)
    /\ AdrsLT(k, p)

\* C23 as stated: with an original block at b and sub-range records b+j
\* below the probe b+k, Range(b+k) returns b, whatever order the scan
\* meets the records in.
C23_RangeReturnsBlock ==
  [][(/\ last'.op = "Range" /\ ~fatal')
     => \A b \in DOMAIN mng :
          (/\ ProbeInBlock(mng, b, last'.adrs)
           /\ OnlySubRangesBelow(mng, b, last'.adrs))
          => last'.ret = b]_vars

\* C23: for an original block at b that holds the probe b+k, Range(b+k)
\* never returns null: it returns the base of a registered record that
\* starts at or below the probe, the first one the scan finds to match. b
\* is always a possible answer, and it is the answer when no other record
\* starts at or below the probe; with only sub-range records b+j below the
\* probe the answer is b or one of them.
C23_RangeReturnsFirstMatch ==
  [][(/\ last'.op = "Range" /\ ~fatal')
     => \A b \in DOMAIN mng :
          ProbeInBlock(mng, b, last'.adrs)
          => (/\ last'.ret # NULL
              /\ last'.ret \in { mng[k].h_adrs : k \in DOMAIN mng }
              /\ AdrsLE(last'.ret, last'.adrs)
              /\ b \in Range(mng, last'.adrs)
              /\ (\A k \in DOMAIN mng \ {b} :
                    ~AdrsLE(mng[k].h_adrs, last'.adrs))
                 => last'.ret = b
              /\ OnlySubRangesBelow(mng, b, last'.adrs)
                 => (\/ last'.ret = b
                     \/ /\ mng[last'.ret].ranged
                        /\ AdrsLT(b, last'.ret)))]_vars

C23_Witness ==
  /\ last.op = "Range"
  /\ ~fatal
  /\ last.ret # NULL
  /\ last.ret \in DOMAIN mng
  /\ mng[last.ret].ranged
  /\ \E b \in DOMAIN mng :
       /\ ProbeInBlock(mng, b, last.adrs)
       /\ OnlySubRangesBelow(mng, b, last.adrs)
       /\ AdrsLT(b, last.ret)

\* C27: the assertions of Range and Known hold on the auto-registration
\* path, with the shifter on or off and with empty blocks registered. Known
\* reaches Range only with a probe that is no key; a base that Range
\* returns for it has more than zero bytes and lies below the probe, and
\* the size of the sub-range, bytes - offset, is not negative. Known
\* (insertIfInRange = true) is fatal only through the duplicate check of
\* the Insert it ends with, which needs the shifter.
C27_AutoRegistrationAsserts ==
  \A adrs \in RangeAdrs :
    /\ adrs \notin DOMAIN mng
       => \A base \in Range(mng, adrs) \ {NULL} :
            \A m2 \in Subscript(mng, base) :
              /\ 0 < m2[base].bytes
              /\ AdrsLT(base, adrs)
              /\ KnownSize(m2[base].bytes, adrs, base) >= 0
    /\ \A r \in Known(mng, adrs, TRUE) :
         r.fatal => (/\ xs_shifted /\ mfem_debug
                     /\ InsertKey(adrs) \in DOMAIN mng)

C27_Witness ==
  /\ last.op = "Known"
  /\ last.flag
  /\ last.known
  /\ ~fatal
  /\ ~xs_shifted
  /\ mng[last.adrs].ranged
  /\ mng[last.adrs].bytes = 0
  /\ \E b \in DOMAIN mng : mng[b].bytes > 0 /\ AdrsLT(b, last.adrs)

\* C28: with the shifter on or off, when Known(a, insertIfInRange = true)
\* returns true the registry holds an entry keyed a, and Resolve works on
\* such an entry: it never leaves the default record of a missing key
\* behind.
C28_KnownLeavesKey ==
  [][/\ (/\ last'.op = "Known" /\ last'.flag /\ last'.known)
        => last'.adrs \in DOMAIN mng'
     /\ (/\ last'.op = "Adrs" /\ ~fatal')
        => (/\ last'.adrs \in DOMAIN mng'
            /\ mng'[last'.adrs].h_adrs = last'.adrs)]_vars

C30_InitCreatesOnceAndVerifies ==
  [][(ode'.inits = ode.inits + 1)
     => LET a == ode'.args
        IN  /\ (a.height # a.size \/ a.ftime # a.t) => fatal'
            /\ (~ode.sundials_mem /\ ~fatal')
               => (/\ ode'.sundials_mem
                   /\ ode'.length = a.size
                   /\ ode'.creates = ode.creates + 1
                   /\ ode'.reinits = ode.reinits)
            /\ (ode.sundials_mem /\ ~fatal')
               => (/\ ode'.sundials_mem
                   /\ ode'.creates = ode.creates
                   /\ ode'.reinits = ode.reinits + 1)
            /\ (ode.sundials_mem /\ a.size # ode.length) => fatal'
            /\ (/\ ode.sundials_mem /\ a.height = a.size /\ a.ftime = a.t
                /\ a.size = ode.length /\ ~a.lib_ok)
               => fatal']_vars

====
